---- MODULE Spec2Model ----
(***************************************************************************)
(* State-machine model of the project/task-management backend: the        *)
(* relational store (projects, project members, tasks, comments,          *)
(* attachments, verification codes), the controllers and services that    *)
(* mutate it, the dashboard queries, and the password-recovery flow.      *)
(***************************************************************************)
EXTENDS Integers, Sequences, FiniteSets, TLC

(***************************************************************************)
(* Identifiers and request inputs                                          *)
(***************************************************************************)

\* SQL NULL of an optional integer column (assignee_id Int?); ids start at 1.
Null == 0

\* A field that is absent from a request body (JavaScript undefined).
Undefined == -1

\* Rows of the User table.  No operation of the modelled specifications
\* creates or deletes users.
Users == {1, 2, 3}

\* User ids a request can carry; user 4 has no row in User.
UserArgs == Users \cup {4}

\* Unique email and username columns of User.
Email == [u \in Users |-> CASE u = 1 -> "ana@x.io" [] u = 2 -> "bob@x.io" [] OTHER -> "eve@x.io"]
Username == [u \in Users |-> CASE u = 1 -> "ana" [] u = 2 -> "bob" [] OTHER -> "eve"]

\* Values of CreateProjectMemberDto.user_identifier that requests carry.
Identifiers == {Email[1], Username[2], Email[3], "ghost"}

\* Values of the ProjectRole enumeration that requests carry.
ProjectRole == {"Member", "Leader", "Collaborator", "Observer", "ProjectManager"}
RoleArgs == {"Member", "Leader"}
OneRole == {"Member"}

\* Task.status values that requests carry, and the value of a completedAt
\* string (the date part of an ISO timestamp); NoDate is SQL NULL there.
StatusArgs == {"Todo", "Done"}
NoDate == "null"
Today == "2025-05-01"

\* Bounds of the autoincrement sequences: rows ever created per table.
MaxProjects == 1
MaxMembers == 2
MaxTasks == 1
MaxComments == 1
MaxAttachments == 1

ProjectArgs == 1..(MaxProjects + 1)
TaskArgs == 1..(MaxTasks + 1)
MemberArgs == 1..(MaxMembers + 1)

VARIABLES
    db,        \* the relational store: one set of rows per table, and the sequences
    pre,       \* the store as it was when the last request arrived
    last,      \* the last request and its response
    password,  \* User.password of every user
    codes,     \* the rows of the VerificationCode table
    codeSeq,   \* the autoincrement sequence of VerificationCode.id
    now,       \* the wall clock, in minutes
    fp,        \* the forgotPassword calls, each at its await point
    rp,        \* the resetPassword calls, each at its await point
    view,      \* the last dashboard query and what it returned
    metrics,   \* the getDashboardMetrics call: its sections and its response
    userTable,     \* the rows of the User table
    su,        \* the calls that create a user, each at its await point
    rm,        \* the calls of TasksService.remove, each at its await point
    mc         \* the calls of ProjectMembersService.create, each at its await point

accountVars == <<userTable, su>>
callVars == <<userTable, su, rm, mc>>
storeVars == <<db, pre, last, view, metrics, userTable, su, rm, mc>>
recoveryVars == <<password, codes, codeSeq, now, fp, rp>>
vars == <<db, pre, last, password, codes, codeSeq, now, fp, rp, view, metrics, userTable, su, rm, mc>>

(***************************************************************************)
(* The store                                                               *)
(***************************************************************************)

EmptyDb ==
    [ projects    |-> {},   \* [id, owner_id]
      members     |-> {},   \* [id, project_id, user_id, role]
      tasks       |-> {},   \* [id, project_id, assignee_id, status, priority,
                            \*  dueDate, completedAt, updatedAt]
      comments    |-> {},   \* [id, task_id, user_id, createdAt]
      attachments |-> {},   \* [id, task_id, user_id, createdAt]
      seq         |-> [project |-> 1, member |-> 1, task |-> 1, comment |-> 1, attachment |-> 1] ]

\* prisma.<table>.findUnique({ where: { id } }) as a set: empty or one row.
ProjectById(d, id) == {p \in d.projects : p.id = id}
TaskById(d, id) == {t \in d.tasks : t.id = id}
MemberById(d, id) == {m \in d.members : m.id = id}
UserExists(uid) == uid \in Users

\* prisma.projectMember.findFirst({ where: { project_id, user_id } }).
MemberRows(d, pid, uid) == {m \in d.members : m.project_id = pid /\ m.user_id = uid}

\* findUserByIdentifier: the user whose username or email is the identifier.
FindUserByIdentifier(ident) == {u \in Users : Username[u] = ident \/ Email[u] = ident}

Result(r, d) == [result |-> r, db |-> d]

(***************************************************************************)
(* ProjectsService                                                         *)
(***************************************************************************)

\* create: the owner must exist; the project row is inserted.
ProjectsServiceCreate(d, owner_id) ==
    IF ~UserExists(owner_id) THEN Result("BadRequest", d)
    ELSE Result("ok",
           [d EXCEPT !.projects = @ \cup {[id |-> d.seq.project, owner_id |-> owner_id]},
                     !.seq.project = @ + 1])

\* update: findOne, then the owner is replaced when the body carries a
\* truthy owner_id that names an existing user.
ProjectsServiceUpdate(d, id, owner_id) ==
    IF ProjectById(d, id) = {} THEN Result("NotFound", d)
    ELSE IF owner_id = Undefined \/ owner_id = Null THEN Result("ok", d)
    ELSE IF ~UserExists(owner_id) THEN Result("BadRequest", d)
    ELSE Result("ok",
           [d EXCEPT !.projects = {IF p.id = id THEN [p EXCEPT !.owner_id = owner_id] ELSE p : p \in @}])

\* The rows that the foreign keys of the schema remove with a project:
\* ProjectMember.project and Task.project are onDelete: Cascade.
CascadeMembers(d, id) == {m \in d.members : m.project_id = id}
CascadeTasks(d, id) == {t \in d.tasks : t.project_id = id}

\* Comment.task and Attachment.task carry no onDelete: the default for a
\* required relation restricts the delete of a referenced task.
TaskIsReferenced(d, tid) ==
    \/ \E c \in d.comments : c.task_id = tid
    \/ \E a \in d.attachments : a.task_id = tid

\* prisma.project.delete: fails (the statement is rolled back) when the
\* project is absent or when a cascaded task is still referenced.
ProjectDeleteFails(d, id) ==
    \/ ProjectById(d, id) = {}
    \/ \E t \in CascadeTasks(d, id) : TaskIsReferenced(d, t.id)

\* remove: every error of the delete is turned into a Bad Request.
ProjectsServiceRemove(d, id) ==
    IF ProjectDeleteFails(d, id) THEN Result("BadRequest", d)
    ELSE Result("ok",
           [d EXCEPT !.projects = @ \ ProjectById(d, id),
                     !.members = @ \ CascadeMembers(d, id),
                     !.tasks = @ \ CascadeTasks(d, id)])

\* ProjectsController.update and .remove: the guard authenticates the
\* caller; the handlers pass the request to the service as it is.
ProjectsControllerUpdate(d, user, id, owner_id) == ProjectsServiceUpdate(d, id, owner_id)
ProjectsControllerRemove(d, user, id) == ProjectsServiceRemove(d, id)

(***************************************************************************)
(* ProjectMembersService                                                   *)
(***************************************************************************)

\* prisma.projectMember.create: the unique index on (project_id, user_id)
\* rejects a second row of a pair with the error code P2002.
PrismaProjectMemberCreate(d, project_id, uid, role) ==
    IF \E m \in d.members : m.project_id = project_id /\ m.user_id = uid
    THEN Result("P2002", d)
    ELSE Result("ok",
           [d EXCEPT !.members = @ \cup {[id |-> d.seq.member, project_id |-> project_id,
                                          user_id |-> uid, role |-> role]},
                     !.seq.member = @ + 1])

\* ProjectMembersServiceCreate without the lookup of an existing row and
\* without the translation of P2002: a duplicate surfaces as an internal error.
ProjectMembersServiceCreate_Untranslated(d, project_id, user_identifier, role) ==
    IF role \notin ProjectRole THEN Result("BadRequest", d)
    ELSE IF ProjectById(d, project_id) = {} THEN Result("BadRequest", d)
    ELSE IF FindUserByIdentifier(user_identifier) = {} THEN Result("BadRequest", d)
    ELSE LET uid == CHOOSE u \in FindUserByIdentifier(user_identifier) : TRUE
             r == PrismaProjectMemberCreate(d, project_id, uid, role) IN
         IF r.result = "P2002" THEN Result("Internal", d) ELSE r

\* create: role, project and user are validated, an existing (project,
\* user) row is a Conflict, and so is a P2002 of the insert.
ProjectMembersServiceCreate(d, project_id, user_identifier, role) ==
    IF role \notin ProjectRole THEN Result("BadRequest", d)
    ELSE IF ProjectById(d, project_id) = {} THEN Result("BadRequest", d)
    ELSE IF FindUserByIdentifier(user_identifier) = {} THEN Result("BadRequest", d)
    ELSE LET uid == CHOOSE u \in FindUserByIdentifier(user_identifier) : TRUE IN
         IF MemberRows(d, project_id, uid) # {} THEN Result("Conflict", d)
         ELSE LET r == PrismaProjectMemberCreate(d, project_id, uid, role) IN
              IF r.result = "P2002" THEN Result("Conflict", d) ELSE r

\* The calls of ProjectMembersService.create that run in a behaviour.
MemberCreates == {1, 2}

NoMemberCreate ==
    [pc |-> "idle", project_id |-> Null, user_id |-> Null, role |-> "",
     checked |-> FALSE, response |-> "pending"]

\* What the catch block of create throws: a BadRequestException as it
\* is, P2002 as a Conflict, any other error as it is.
ProjectMembersServiceCreateCatch_Untranslated(error) == error
ProjectMembersServiceCreateCatch(error) == IF error = "P2002" THEN "Conflict" ELSE error

\* create up to the await of projectMember.findFirst: the role, the
\* project and the user are validated and an existing row is a Conflict.
MemberCreateFindFirst(p, roles) ==
    /\ mc[p].pc = "idle"
    /\ \E project_id \in ProjectArgs, user_identifier \in Identifiers, role \in roles :
         LET userExists == FindUserByIdentifier(user_identifier)
             Fails(error) == [mc[p] EXCEPT !.pc = "done", !.project_id = project_id,
                                           !.response = ProjectMembersServiceCreateCatch(error)]
         IN  mc' = [mc EXCEPT ![p] =
                 IF role \notin ProjectRole THEN Fails("BadRequest")
                 ELSE IF ProjectById(db, project_id) = {} THEN Fails("BadRequest")
                 ELSE IF userExists = {} THEN Fails("BadRequest")
                 ELSE LET uid == CHOOSE u \in userExists : TRUE IN
                      IF MemberRows(db, project_id, uid) # {}
                      THEN [Fails("Conflict") EXCEPT !.user_id = uid]
                      ELSE [mc[p] EXCEPT !.pc = "create", !.project_id = project_id,
                                         !.user_id = uid, !.role = role, !.checked = TRUE]]
    /\ UNCHANGED <<db, pre, last, view, metrics, recoveryVars, userTable, su, rm>>

\* prisma.projectMember.create and the return of create.
MemberCreateInsert(p) ==
    /\ mc[p].pc = "create"
    /\ LET r == PrismaProjectMemberCreate(db, mc[p].project_id, mc[p].user_id, mc[p].role)
       IN  /\ db' = r.db
           /\ mc' = [mc EXCEPT ![p].pc = "done",
                        ![p].response = ProjectMembersServiceCreateCatch(r.result)]
    /\ UNCHANGED <<pre, last, view, metrics, recoveryVars, userTable, su, rm>>

\* update: findOne; a role outside the enumeration is a Bad Request; the
\* DTO as a whole is the data of prisma.projectMember.update.  The DTO is
\* the partial CreateProjectMemberDto: project_id is a scalar column of
\* the row and is written, user_identifier is no field of the model and
\* fails the call, as do a missing project and a pair that has a row.
ProjectMembersServiceUpdate(d, id, dto) ==
    IF MemberById(d, id) = {} THEN Result("NotFound", d)
    ELSE IF dto.role # "undefined" /\ dto.role \notin ProjectRole THEN Result("BadRequest", d)
    ELSE IF dto.user_identifier # "undefined" THEN Result("PrismaError", d)
    ELSE LET row == CHOOSE m \in MemberById(d, id) : TRUE
             written == [row EXCEPT
                           !.project_id = IF dto.project_id = Undefined THEN @ ELSE dto.project_id,
                           !.role = IF dto.role = "undefined" THEN @ ELSE dto.role]
         IN  IF ProjectById(d, written.project_id) = {} THEN Result("PrismaError", d)
             ELSE IF \E m \in d.members \ {row} :
                        m.project_id = written.project_id /\ m.user_id = written.user_id
                  THEN Result("PrismaError", d)
             ELSE Result("ok", [d EXCEPT !.members = (@ \ {row}) \cup {written}])

\* remove: findOne, then the row is deleted.
ProjectMembersServiceRemove(d, id) ==
    IF MemberById(d, id) = {} THEN Result("NotFound", d)
    ELSE Result("ok", [d EXCEPT !.members = @ \ MemberById(d, id)])

\* removeByProjectAndUser: the row of the pair is looked up and deleted.
ProjectMembersServiceRemoveByProjectAndUser(d, project_id, user_id) ==
    IF MemberRows(d, project_id, user_id) = {} THEN Result("NotFound", d)
    ELSE Result("ok", [d EXCEPT !.members = @ \ MemberRows(d, project_id, user_id)])

(***************************************************************************)
(* TasksService and TasksController                                        *)
(***************************************************************************)

\* A task body: assignee_id is Undefined (absent), Null or a user id;
\* status and completedAt are "undefined" (absent) or a string.
NoBody == [assignee_id |-> Undefined, status |-> "undefined", completedAt |-> "undefined"]
Truthy(x) == x # Undefined /\ x # Null
TruthyStr(x) == x # "undefined" /\ x # NoDate

\* The assignee check of create: the user is a member of the project or
\* its owner.
IsMemberOrOwner(d, project_id, uid) ==
    \/ MemberRows(d, project_id, uid) # {}
    \/ \E p \in ProjectById(d, project_id) : p.owner_id = uid

\* create: the project must exist; a truthy assignee must exist and be a
\* member or the owner of the project; the row takes the body's status
\* (default "Todo") and completedAt.
TasksServiceCreate(d, project_id, body) ==
    IF ProjectById(d, project_id) = {} THEN Result("BadRequest", d)
    ELSE IF Truthy(body.assignee_id) /\ ~UserExists(body.assignee_id) THEN Result("BadRequest", d)
    ELSE IF Truthy(body.assignee_id) /\ ~IsMemberOrOwner(d, project_id, body.assignee_id)
         THEN Result("BadRequest", d)
    ELSE Result("ok",
           [d EXCEPT !.tasks = @ \cup
                {[id |-> d.seq.task, project_id |-> project_id,
                  assignee_id |-> IF Truthy(body.assignee_id) THEN body.assignee_id ELSE Null,
                  status |-> IF body.status = "undefined" THEN "Todo" ELSE body.status,
                  priority |-> "Medium", dueDate |-> NoDate,
                  completedAt |-> IF body.completedAt = "undefined" THEN NoDate ELSE body.completedAt,
                  updatedAt |-> now]},
                     !.seq.task = @ + 1])

\* The row that update writes: the fields the body carries replace the
\* stored ones; a null assignee disconnects; status "Done" with no truthy
\* completedAt in the body stamps the current date.
UpdatedTask(t, body) ==
    [t EXCEPT
       !.assignee_id = IF body.assignee_id = Undefined THEN @ ELSE body.assignee_id,
       !.status = IF body.status = "undefined" THEN @ ELSE body.status,
       !.completedAt = IF body.status = "Done" /\ ~TruthyStr(body.completedAt) THEN Today
                       ELSE IF body.completedAt = "undefined" THEN @ ELSE body.completedAt,
       !.updatedAt = now]

\* update: the task must exist; an assignee that is neither absent nor
\* null must exist; the row is then written.
TasksServiceUpdate(d, id, body) ==
    IF TaskById(d, id) = {} THEN Result("NotFound", d)
    ELSE IF Truthy(body.assignee_id) /\ ~UserExists(body.assignee_id) THEN Result("BadRequest", d)
    ELSE Result("ok",
           [d EXCEPT !.tasks = {IF t.id = id THEN UpdatedTask(t, body) ELSE t : t \in @}])

\* remove: findOne, then the comments, the attachments and the task are
\* deleted, in this order.
TasksServiceRemove(d, id) ==
    IF TaskById(d, id) = {} THEN Result("NotFound", d)
    ELSE Result("ok",
           [d EXCEPT !.comments = {c \in @ : c.task_id # id},
                     !.attachments = {a \in @ : a.task_id # id},
                     !.tasks = @ \ TaskById(d, id)])

\* The calls of TasksService.remove that run in a behaviour.
Removals == {1, 2}

NoRemoval == [pc |-> "idle", id |-> Null, response |-> "pending"]

\* What the catch block of remove throws: P2003 as a Bad Request, any
\* other error as it is.
TasksServiceRemoveCatch(error) == IF error = "P2003" THEN "BadRequest" ELSE error

\* A step of a removal that fails in the database: nothing is written.
RemovalFails(p) ==
    /\ rm[p].pc \in {"comments", "attachments", "task"}
    /\ rm' = [rm EXCEPT ![p].pc = "done",
                        ![p].response = TasksServiceRemoveCatch("PrismaError")]
    /\ UNCHANGED <<db, pre, last, view, metrics, recoveryVars, accountVars, mc>>

\* remove up to the await of findOne.  The calls are numbered in the
\* order in which they arrive.
RemoveFindOne(p) ==
    /\ rm[p].pc = "idle"
    /\ \A q \in Removals : q < p => rm[q].pc # "idle"
    /\ \E id \in TaskArgs :
         rm' = [rm EXCEPT ![p] =
                  IF TaskById(db, id) = {}
                  THEN [pc |-> "done", id |-> id, response |-> "NotFound"]
                  ELSE [pc |-> "comments", id |-> id, response |-> "pending"]]
    /\ UNCHANGED <<db, pre, last, view, metrics, recoveryVars, accountVars, mc>>

\* prisma.comment.deleteMany({ where: { task_id: id } })
RemoveComments(p) ==
    /\ rm[p].pc = "comments"
    /\ db' = [db EXCEPT !.comments = {c \in @ : c.task_id # rm[p].id}]
    /\ rm' = [rm EXCEPT ![p].pc = "attachments"]
    /\ UNCHANGED <<pre, last, view, metrics, recoveryVars, accountVars, mc>>

\* prisma.attachment.deleteMany({ where: { task_id: id } })
RemoveAttachments(p) ==
    /\ rm[p].pc = "attachments"
    /\ db' = [db EXCEPT !.attachments = {a \in @ : a.task_id # rm[p].id}]
    /\ rm' = [rm EXCEPT ![p].pc = "task"]
    /\ UNCHANGED <<pre, last, view, metrics, recoveryVars, accountVars, mc>>

\* prisma.task.delete: P2025 when the row is gone, P2003 when a comment
\* or an attachment references it.
PrismaTaskDelete_Unrestricted(d, id) ==
    IF TaskById(d, id) = {} THEN Result("P2025", d)
    ELSE Result("ok", [d EXCEPT !.tasks = @ \ TaskById(d, id)])
PrismaTaskDelete(d, id) ==
    IF TaskById(d, id) = {} THEN Result("P2025", d)
    ELSE IF TaskIsReferenced(d, id) THEN Result("P2003", d)
    ELSE Result("ok", [d EXCEPT !.tasks = @ \ TaskById(d, id)])

\* prisma.task.delete({ where: { id } }) and the return of remove.
RemoveTask(p) ==
    /\ rm[p].pc = "task"
    /\ LET r == PrismaTaskDelete(db, rm[p].id)
       IN  /\ db' = r.db
           /\ rm' = [rm EXCEPT ![p].pc = "done",
                        ![p].response = TasksServiceRemoveCatch(r.result)]
    /\ UNCHANGED <<pre, last, view, metrics, recoveryVars, accountVars, mc>>

\* request.user?.sub: the token payload that signIn signs is
\* { userWithoutPassword }, which has no sub.
TokenSub(user) == Undefined

\* TasksController.update: an empty body is a Bad Request; findOne; the
\* body is passed to the service without a check of the caller.
TasksControllerUpdate(d, user, id, body) ==
    IF body = NoBody THEN Result("BadRequest", d)
    ELSE IF TaskById(d, id) = {} THEN Result("NotFound", d)
    ELSE TasksServiceUpdate(d, id, body)

\* TasksController.remove: findOne; the project of the task is read; the
\* caller passes when it owns the project or is the task's creator, and
\* userIsTaskCreator is the constant true.
UserIsTaskCreator_Never == FALSE
UserIsTaskCreator == TRUE
TasksControllerRemove(d, user, id) ==
    IF TaskById(d, id) = {} THEN Result("NotFound", d)
    ELSE LET task == CHOOSE t \in TaskById(d, id) : TRUE
             project == ProjectById(d, task.project_id) IN
         IF project = {} THEN Result("NotFound", d)
         ELSE LET userIsProjectOwner == \E p \in project : p.owner_id = TokenSub(user) IN
              IF ~userIsProjectOwner /\ ~UserIsTaskCreator THEN Result("Forbidden", d)
              ELSE TasksServiceRemove(d, id)

(***************************************************************************)
(* CommentsService                                                         *)
(***************************************************************************)

\* create: the task and the user must exist; the comment is inserted.
CommentsServiceCreate(d, task_id, user_id) ==
    IF TaskById(d, task_id) = {} THEN Result("BadRequest", d)
    ELSE IF ~UserExists(user_id) THEN Result("BadRequest", d)
    ELSE Result("ok",
           [d EXCEPT !.comments = @ \cup {[id |-> d.seq.comment, task_id |-> task_id,
                                             user_id |-> user_id, createdAt |-> now]},
                     !.seq.comment = @ + 1])

\* createAttachment: the task and the user must exist; the row is inserted.
CommentsServiceCreateAttachment(d, task_id, user_id) ==
    IF TaskById(d, task_id) = {} THEN Result("BadRequest", d)
    ELSE IF ~UserExists(user_id) THEN Result("BadRequest", d)
    ELSE Result("ok",
           [d EXCEPT !.attachments = @ \cup {[id |-> d.seq.attachment, task_id |-> task_id,
                                                   user_id |-> user_id, createdAt |-> now]},
                     !.seq.attachment = @ + 1])

(***************************************************************************)
(* UsersService: password recovery                                         *)
(***************************************************************************)

\* Minutes a verification code stays valid after it is issued.
CodeTtlMinutes == 15

\* The clock advances in steps of TickMinutes up to MaxTime.
TickMinutes == 15
MaxTime == 30

\* Number of forgotPassword and of resetPassword calls in a behaviour.
NumForgots == 2
NumResets == 2

Forgots == 1..NumForgots
Resets == 1..NumResets

\* Strings generateVerificationCode draws from.
CodeValues == {"AAAAAA", "BBBBBB"}

\* email of ForgotPasswordDto and of ResetPasswordDto, password and
\* confirmPassword of ResetPasswordDto, as requests carry them.
ForgotEmails == {"Ana@X.io", "nobody@x.io"}
ResetEmails == {"ana@x.io", "bob@x.io", "nobody@x.io"}
PasswordArgs == {"secret1", "secret2"}

\* email.toLowerCase().trim() on the addresses requests carry.
Normalize(email) ==
    CASE email = "Ana@X.io" -> "ana@x.io"
      [] OTHER -> email

\* prisma.user.findUnique({ where: { email } }): the id, or Null.
FindByEmail(email) ==
    IF \E u \in Users : Email[u] = email
    THEN CHOOSE u \in Users : Email[u] = email
    ELSE Null

\* bcryptjs.hash: a value that compares equal to the password hashed.
Encrypt(pw) == [bcrypt |-> pw]

InitialPassword == Encrypt("initial")

ForgotMessage == "Si existe una cuenta con este correo electronico, recibiras un codigo de verificacion para restablecer tu contrasena"
ResetMessage == "Contrasena actualizada exitosamente"

\* A response: the exception thrown ("none" when the call returns) and
\* the message of the body.
Response(error, message) == [error |-> error, message |-> message]
NoResponse == Response("pending", "")

\* The return statements of forgotPassword.
ForgotPasswordReturn == Response("none", ForgotMessage)

\* The catch block of forgotPassword.
ForgotPasswordCatch_Rethrow(error) == Response(error, error)
ForgotPasswordCatch(error) == Response("none", ForgotMessage)

\* The catch block of resetPassword.
ResetPasswordCatch(error) ==
    IF error \in {"BadRequest", "NotFound", "Unauthorized"}
    THEN Response(error, error)
    ELSE Response("InternalServerError", "Error al restablecer la contrasena")

\* A call keeps, as seq, the value VerificationCode.id had reached when the
\* call arrived: the rows with a smaller id were issued before it.
NoForgot ==
    [pc |-> "idle", email |-> "", user |-> Null, code |-> "",
     expiresAt |-> 0, sent |-> FALSE, response |-> NoResponse, seq |-> 0]

NoReset ==
    [pc |-> "idle", email |-> "", code |-> "", password |-> "",
     user |-> Null, vc |-> Null, response |-> NoResponse, seq |-> 0]

UnusedCodes(userId) == {c \in codes : c.userId = userId /\ ~c.isUsed}

\* forgotPassword up to the await of findByEmail and, for a known user,
\* the generation of the code and of its expiry.
ForgotFindUser(p, emails) ==
    /\ fp[p].pc = "idle"
    /\ \E email \in emails, code \in CodeValues :
         LET user == FindByEmail(Normalize(email))
         IN  fp' = [fp EXCEPT ![p] =
                 IF user = Null
                 THEN [@ EXCEPT !.pc = "done", !.email = email, !.seq = codeSeq,
                                !.response = ForgotPasswordReturn]
                 ELSE [@ EXCEPT !.pc = "deleteMany", !.email = email, !.seq = codeSeq,
                                !.user = user, !.code = code,
                                !.expiresAt = now + CodeTtlMinutes]]
    /\ UNCHANGED <<storeVars, password, codes, codeSeq, now, rp>>

\* verificationCode.deleteMany({ userId, isUsed: false }).
ForgotDeleteMany_Skip(p) ==
    /\ fp[p].pc = "deleteMany"
    /\ fp' = [fp EXCEPT ![p].pc = "create"]
    /\ UNCHANGED <<storeVars, password, codes, codeSeq, now, rp>>
ForgotDeleteMany(p) ==
    /\ fp[p].pc = "deleteMany"
    /\ codes' = codes \ UnusedCodes(fp[p].user)
    /\ fp' = [fp EXCEPT ![p].pc = "create"]
    /\ UNCHANGED <<storeVars, password, codeSeq, now, rp>>

\* verificationCode.create: the insert fails when the store is unavailable
\* and, code being unique, when a row already holds the string.
ForgotCreate(p) ==
    /\ fp[p].pc = "create"
    /\ \E available \in BOOLEAN :
         IF available /\ ~\E c \in codes : c.code = fp[p].code
         THEN /\ codes' = codes \cup
                    {[id |-> codeSeq, code |-> fp[p].code, userId |-> fp[p].user,
                      expiresAt |-> fp[p].expiresAt, isUsed |-> FALSE]}
              /\ codeSeq' = codeSeq + 1
              /\ fp' = [fp EXCEPT ![p].pc = "send"]
         ELSE /\ fp' = [fp EXCEPT ![p].pc = "done",
                          ![p].response = ForgotPasswordCatch("PrismaError")]
              /\ UNCHANGED <<codes, codeSeq>>
    /\ UNCHANGED <<storeVars, password, now, rp>>

\* emailService.sendVerificationCode, which delivers or throws.
ForgotSend(p) ==
    /\ fp[p].pc = "send"
    /\ \E delivered \in BOOLEAN :
         fp' = [fp EXCEPT ![p].pc = "done", ![p].sent = delivered,
                  ![p].response = IF delivered THEN ForgotPasswordReturn
                                  ELSE ForgotPasswordCatch("InternalServerError")]
    /\ UNCHANGED <<storeVars, password, codes, codeSeq, now, rp>>

\* resetPassword up to the await of findByEmail.
ResetFindUser(p, emails, confirmations) ==
    /\ rp[p].pc = "idle"
    /\ \E email \in emails, code \in CodeValues,
          pw \in PasswordArgs, confirmPassword \in confirmations :
         LET user == FindByEmail(Normalize(email))
             call == [rp[p] EXCEPT !.email = email, !.code = code, !.password = pw,
                                   !.seq = codeSeq]
         IN  rp' = [rp EXCEPT ![p] =
                 IF pw # confirmPassword
                 THEN [call EXCEPT !.pc = "done",
                                   !.response = ResetPasswordCatch("BadRequest")]
                 ELSE IF user = Null
                 THEN [call EXCEPT !.pc = "done",
                                   !.response = ResetPasswordCatch("NotFound")]
                 ELSE [call EXCEPT !.pc = "findFirst", !.user = user]]
    /\ UNCHANGED <<storeVars, password, codes, codeSeq, now, fp>>

\* verificationCode.findFirst({ code, userId, isUsed: false }) and the
\* comparison of its expiresAt with the clock.
ResetFindFirst_NoExpiry(p) ==
    /\ rp[p].pc = "findFirst"
    /\ LET found == {c \in UnusedCodes(rp[p].user) : c.code = rp[p].code}
       IN  rp' = [rp EXCEPT ![p] =
               IF found = {}
               THEN [@ EXCEPT !.pc = "done",
                              !.response = ResetPasswordCatch("Unauthorized")]
               ELSE [@ EXCEPT !.pc = "userUpdate",
                              !.vc = (CHOOSE c \in found : TRUE).id]]
    /\ UNCHANGED <<storeVars, password, codes, codeSeq, now, fp>>
ResetFindFirst(p) ==
    /\ rp[p].pc = "findFirst"
    /\ LET found == {c \in UnusedCodes(rp[p].user) : c.code = rp[p].code}
       IN  rp' = [rp EXCEPT ![p] =
               IF found = {}
               THEN [@ EXCEPT !.pc = "done",
                              !.response = ResetPasswordCatch("Unauthorized")]
               ELSE LET verificationCode == CHOOSE c \in found : TRUE
                    IN  IF verificationCode.expiresAt < now
                        THEN [@ EXCEPT !.pc = "done",
                                       !.response = ResetPasswordCatch("Unauthorized")]
                        ELSE [@ EXCEPT !.pc = "userUpdate",
                                       !.vc = verificationCode.id]]
    /\ UNCHANGED <<storeVars, password, codes, codeSeq, now, fp>>

\* user.update({ password: hashedPassword }).
ResetUserUpdate(p) ==
    /\ rp[p].pc = "userUpdate"
    /\ password' = [password EXCEPT ![rp[p].user] = Encrypt(rp[p].password)]
    /\ rp' = [rp EXCEPT ![p].pc = "codeUpdate"]
    /\ UNCHANGED <<storeVars, codes, codeSeq, now, fp>>

\* verificationCode.update({ where: { id }, data: { isUsed: true } }),
\* which throws when the row is gone.
ResetCodeUpdate(p) ==
    /\ rp[p].pc = "codeUpdate"
    /\ IF \E c \in codes : c.id = rp[p].vc
       THEN /\ codes' = {IF c.id = rp[p].vc THEN [c EXCEPT !.isUsed = TRUE] ELSE c
                          : c \in codes}
            /\ rp' = [rp EXCEPT ![p].pc = "done",
                        ![p].response = Response("none", ResetMessage)]
       ELSE /\ rp' = [rp EXCEPT ![p].pc = "done",
                        ![p].response = ResetPasswordCatch("PrismaError")]
            /\ UNCHANGED codes
    /\ UNCHANGED <<storeVars, password, codeSeq, now, fp>>

Tick ==
    /\ now + TickMinutes <= MaxTime
    /\ now' = now + TickMinutes
    /\ UNCHANGED <<storeVars, password, codes, codeSeq, fp, rp>>

(***************************************************************************)
(* UsersService.create and AuthService.signUp                              *)
(***************************************************************************)

\* Number of calls that create a user in a behaviour.
NumSignUps == 3
SignUps == 1..NumSignUps

\* email of CreateUserDto and of RegisterDto as requests carry it; the
\* requests carry no username.
SignUpEmails == {"ana@x.io", "neo@x.io"}

NoSignUp == [pc |-> "idle", via |-> "", email |-> "", row |-> Null, response |-> "pending"]

\* The users registered at the start.
InitialUsers == {[id |-> u, email |-> Email[u], username |-> Username[u]] : u \in Users}

\* prisma.user.create: email is unique; a taken email is error P2002.
PrismaUserCreate(email) ==
    IF \E u \in userTable : u.email = email THEN [error |-> "P2002", rows |-> userTable]
    ELSE [error |-> "none",
          rows |-> userTable \cup {[id |-> 1 + Cardinality(userTable), email |-> email,
                                 username |-> "null"]}]

\* What the catch block of UsersService.create throws for an error of
\* prisma.user.create.
UsersServiceCreateCatch(error) == IF error = "P2002" THEN "Conflict" ELSE error

\* What the catch block of signUp throws: a BadGatewayException as it is,
\* anything else as an Error.
SignUpCatch(error) == IF error = "BadGateway" THEN "BadGateway" ELSE "InternalServerError"

\* UsersService.create: encrypt, then prisma.user.create.
UsersServiceCreate(p) ==
    /\ su[p].pc = "idle"
    /\ \E email \in SignUpEmails :
         LET r == PrismaUserCreate(email)
         IN  /\ userTable' = r.rows
             /\ su' = [su EXCEPT ![p] =
                    [pc |-> "done", via |-> "create", email |-> email,
                     row |-> IF r.error = "none" THEN Cardinality(r.rows) ELSE Null,
                     response |-> IF r.error = "none" THEN "ok"
                                  ELSE UsersServiceCreateCatch(r.error)]]
    /\ UNCHANGED <<db, pre, last, view, metrics, recoveryVars, rm, mc>>

\* signUp up to the await of user.findUnique({ email }).
SignUpFindEmail(p) ==
    /\ su[p].pc = "idle"
    /\ \E email \in SignUpEmails :
         su' = [su EXCEPT ![p] =
                  IF \E u \in userTable : u.email = email
                  THEN [@ EXCEPT !.pc = "done", !.via = "signUp", !.email = email,
                                 !.response = SignUpCatch("BadGateway")]
                  ELSE [@ EXCEPT !.pc = "create", !.via = "signUp", !.email = email]]
    /\ UNCHANGED <<db, pre, last, view, metrics, recoveryVars, userTable, rm, mc>>

\* signUp from encrypt to the end: prisma.user.create and the token.
SignUpCreate(p) ==
    /\ su[p].pc = "create"
    /\ LET r == PrismaUserCreate(su[p].email)
       IN  /\ userTable' = r.rows
           /\ su' = [su EXCEPT ![p].pc = "done",
                        ![p].row = IF r.error = "none" THEN Cardinality(r.rows) ELSE Null,
                        ![p].response = IF r.error = "none" THEN "ok"
                                        ELSE SignUpCatch(r.error)]
    /\ UNCHANGED <<db, pre, last, view, metrics, recoveryVars, rm, mc>>

(***************************************************************************)
(* DashboardService                                                        *)
(***************************************************************************)

\* Number of tasks in the stores the dashboard is queried on, and the
\* largest limit a query carries.
MaxDashTasks == 2
MaxLimit == 2

\* Values of updatedAt and createdAt in those stores.
Stamps == {1, 2}

\* The default of the limit parameter.
DefaultLimit == 10

\* The limit query parameter: absent, or a count.
Limits == {Undefined} \cup (0..MaxLimit)
EffectiveLimit(limit) == IF limit = Undefined THEN DefaultLimit ELSE limit

NoView == [op |-> "none", user |-> Null, limit |-> 0, count |-> 0, items |-> <<>>]

\* The filter every query shares: the task is assigned to the user, or its
\* project is owned by the user or has the user among its members.
VisibleTask(d, t, userId) ==
    \/ t.assignee_id = userId
    \/ \E p \in ProjectById(d, t.project_id) :
          \/ p.owner_id = userId
          \/ MemberRows(d, p.id, userId) # {}

\* The sequences a findMany may return for the rows S under an orderBy,
\* given as the set of the pairs <<a, b>> where a may come before b: every
\* arrangement of S that respects it (rows that tie come in any order).
Orderings(S, orderBy) ==
    {s \in [1..Cardinality(S) -> S] :
        /\ \A i, j \in 1..Cardinality(S) : i # j => s[i] # s[j]
        /\ \A i, j \in 1..Cardinality(S) : i < j => <<s[i], s[j]>> \in orderBy}

\* take: limit, and Array.prototype.slice(0, limit), for a count.
Take(s, limit) == SubSeq(s, 1, IF limit < Len(s) THEN limit ELSE Len(s))

\* Position of a Task.priority string and of a Task.dueDate string in the
\* ascending order of the database; NULL sorts last.
PriorityRank(priority) ==
    CASE priority = "Critical" -> 1
      [] priority = "High" -> 2
      [] priority = "Low" -> 3
      [] priority = "Medium" -> 4
DateRank(date) == IF date = NoDate THEN 2 ELSE 1

\* orderBy: [{ priority: 'desc' }, { dueDate: 'asc' }].
PendingOrder(rows) ==
    {pair \in rows \X rows :
        \/ PriorityRank(pair[1].priority) > PriorityRank(pair[2].priority)
        \/ /\ PriorityRank(pair[1].priority) = PriorityRank(pair[2].priority)
           /\ DateRank(pair[1].dueDate) <= DateRank(pair[2].dueDate)}

\* The where clause of getPendingTasks.
PendingWhere_AnyStatus(d, t, userId) == VisibleTask(d, t, userId)
PendingWhere(d, t, userId) == t.status # "Done" /\ VisibleTask(d, t, userId)

\* getPendingTasks: the results the two queries may give.
GetPendingTasks(d, userId, limit) ==
    LET matching == {t \in d.tasks : PendingWhere(d, t, userId)}
    IN  {[count |-> Cardinality(matching), items |-> Take(s, limit)] :
            s \in Orderings(matching, PendingOrder(matching))}

\* The default of the limit parameter of getCompletedTasks.
CompletedDefaultLimit == 5

\* The dates a Task.completedAt string holds in the model, and the
\* position of a completedAt in the ascending order of the database:
\* strings in their own order, NULL after every string.
CompletedDates == {"2025-04-30", Today}
CompletedRank(date) ==
    CASE date = "2025-04-30" -> 1
      [] date = Today -> 2
      [] date = NoDate -> 3

\* orderBy: { completedAt: 'desc' }.
CompletedAtDesc(rows) ==
    {pair \in rows \X rows : CompletedRank(pair[1].completedAt) >= CompletedRank(pair[2].completedAt)}

\* The where clause of getCompletedTasks.
CompletedWhere_AnyStatus(d, t, userId) == VisibleTask(d, t, userId)
CompletedWhere(d, t, userId) == t.status = "Done" /\ VisibleTask(d, t, userId)

\* getCompletedTasks: the results the two queries may give.
GetCompletedTasks(d, userId, limit) ==
    LET matching == {t \in d.tasks : CompletedWhere(d, t, userId)}
    IN  {[count |-> Cardinality({t \in d.tasks : t.status = "Done" /\ VisibleTask(d, t, userId)}),
          items |-> Take(s, limit)] :
            s \in Orderings(matching, CompletedAtDesc(matching))}

\* collaboratorCount of a task from the user ids of the members of its
\* project and of the authors of its comments.
CollaboratorCount_Sum(projectMemberIds, commentUserIds) ==
    Cardinality(projectMemberIds) + Cardinality(commentUserIds)
CollaboratorCount(projectMemberIds, commentUserIds) ==
    Cardinality(projectMemberIds)
        + Cardinality({userId \in commentUserIds : userId \notin projectMemberIds})

AnyOrder(rows) == rows \X rows

\* getTaskCollaboratorsCount: findMany carries no orderBy.
GetTaskCollaboratorsCount(d, userId, limit) ==
    LET matching == {t \in d.tasks : VisibleTask(d, t, userId)}
        Metric(task) ==
            [id |-> task.id, project_id |-> task.project_id,
             collaboratorCount |->
                CollaboratorCount({m.user_id : m \in {r \in d.members : r.project_id = task.project_id}},
                                  {c.user_id : c \in {r \in d.comments : r.task_id = task.id}})]
    IN  {[count |-> 0,
          items |-> [i \in 1..Len(Take(s, limit)) |-> Metric(s[i])]] :
            s \in Orderings(matching, AnyOrder(matching))}

\* orderBy: { updatedAt: 'desc' } and orderBy: { createdAt: 'desc' }.
UpdatedAtDesc_Asc(rows) == {pair \in rows \X rows : pair[1].updatedAt <= pair[2].updatedAt}
UpdatedAtDesc(rows) == {pair \in rows \X rows : pair[1].updatedAt >= pair[2].updatedAt}
CreatedAtDesc(rows) == {pair \in rows \X rows : pair[1].createdAt >= pair[2].createdAt}

TaskActivity(task) ==
    [type |-> IF task.completedAt # NoDate THEN "task_updated" ELSE "task_created",
     id |-> task.id, task_id |-> task.id, timestamp |-> task.updatedAt]
CommentActivity(comment) ==
    [type |-> "comment_added", id |-> comment.id, task_id |-> comment.task_id,
     timestamp |-> comment.createdAt]
AttachmentActivity(attachment) ==
    [type |-> "attachment_added", id |-> attachment.id, task_id |-> attachment.task_id,
     timestamp |-> attachment.createdAt]

\* Array.prototype.sort((a, b) => b.timestamp - a.timestamp), a stable
\* sort: later timestamps first, equal timestamps in their given order.
SortByTimestampDesc(s) ==
    LET Rank(i) == 1 + Cardinality({j \in 1..Len(s) :
                        \/ s[j].timestamp > s[i].timestamp
                        \/ s[j].timestamp = s[i].timestamp /\ j < i})
    IN  [k \in 1..Len(s) |-> s[CHOOSE i \in 1..Len(s) : Rank(i) = k]]

\* The final slice(0, limit) of getRecentActivity.
ActivitySlice_None(s, limit) == s
ActivitySlice(s, limit) == Take(s, limit)

\* getRecentActivity: three limited queries, merged, sorted and sliced.
GetRecentActivity(d, userId, limit) ==
    LET visible(rows) == {r \in rows : \E t \in TaskById(d, r.task_id) : VisibleTask(d, t, userId)}
        tasks == {t \in d.tasks : VisibleTask(d, t, userId)}
        comments == visible(d.comments)
        attachments == visible(d.attachments)
    IN  {[count |-> 0,
          items |-> ActivitySlice(
                      SortByTimestampDesc(
                          [i \in 1..Len(recentTasks) |-> TaskActivity(recentTasks[i])]
                          \o [i \in 1..Len(recentComments) |-> CommentActivity(recentComments[i])]
                          \o [i \in 1..Len(recentAttachments) |-> AttachmentActivity(recentAttachments[i])]),
                      limit)] :
            recentTasks \in {Take(s, limit) : s \in Orderings(tasks, UpdatedAtDesc(tasks))},
            recentComments \in {Take(s, limit) : s \in Orderings(comments, CreatedAtDesc(comments))},
            recentAttachments \in {Take(s, limit) : s \in Orderings(attachments, CreatedAtDesc(attachments))}}

\* A dashboard request: the query is answered and the answer kept.
Query(op, user, limit, answer) ==
    /\ view' = [op |-> op, user |-> user, limit |-> limit,
                count |-> answer.count, items |-> answer.items]
    /\ UNCHANGED <<db, pre, last, recoveryVars, metrics, callVars>>

\* The six computations getDashboardMetrics starts, in the order of the
\* array it hands to Promise.all.
Sections ==
    <<"activeProjects", "pendingTasks", "completedTasks", "taskCollaborators",
      "recentProjects", "recentActivity">>
SectionIds == 1..Len(Sections)

NoMetrics ==
    [user |-> Null, promises |-> [i \in SectionIds |-> "none"],
     response |-> "none", body |-> {}]

\* Promise.all over promises that are pending, fulfilled or rejected: it
\* rejects once one has rejected and fulfils once all have fulfilled.
PromiseAll_Settled(promises) ==
    IF \E i \in DOMAIN promises : promises[i] = "pending" THEN "pending"
    ELSE "fulfilled"
PromiseAll(promises) ==
    IF \E i \in DOMAIN promises : promises[i] = "rejected" THEN "rejected"
    ELSE IF \A i \in DOMAIN promises : promises[i] = "fulfilled" THEN "fulfilled"
    ELSE "pending"

\* getDashboardMetrics starts the six computations.
MetricsStart ==
    /\ metrics.response = "none"
    /\ \E user \in Users :
         metrics' = [metrics EXCEPT !.user = user, !.response = "pending",
                                    !.promises = [i \in SectionIds |-> "pending"]]
    /\ UNCHANGED <<db, pre, last, view, recoveryVars, callVars>>

\* A computation returns its section, or throws (each catches what its
\* queries throw and throws an Error).
SectionSettles ==
    /\ \E i \in SectionIds, outcome \in {"fulfilled", "rejected"} :
         /\ metrics.promises[i] = "pending"
         /\ metrics' = [metrics EXCEPT !.promises[i] = outcome]
    /\ UNCHANGED <<db, pre, last, view, recoveryVars, callVars>>

\* The await of Promise.all returns and the object with the six sections
\* is returned, or it throws and the catch block throws an Error, which
\* the controller answers as an internal server error.
MetricsSettle ==
    /\ metrics.response = "pending"
    /\ PromiseAll(metrics.promises) # "pending"
    /\ metrics' =
         IF PromiseAll(metrics.promises) = "fulfilled"
         THEN [metrics EXCEPT !.response = "ok",
                 !.body = {Sections[i] : i \in {j \in SectionIds :
                                                   metrics.promises[j] = "fulfilled"}}]
         ELSE [metrics EXCEPT !.response = "InternalServerError"]
    /\ UNCHANGED <<db, pre, last, view, recoveryVars, callVars>>

PendingTasks(users, limits) ==
    \E user \in users, limit \in limits :
        \E answer \in GetPendingTasks(db, user, EffectiveLimit(limit)) :
            Query("pending-tasks", user, limit, answer)

\* parseInt(str, 10) of the decimal strings the requests carry.
DecimalStrings == <<"1", "2", "3">>
ParseInt10(str) == CHOOSE n \in DOMAIN DecimalStrings : DecimalStrings[n] = str

\* if (x) of an optional number: undefined and 0 are falsy.
TruthyNumber(x) == Truthy(x) /\ x # 0

\* TasksService.findTasksWithFilters: the where clause is built from the
\* truthy options, the assignee of myTasks written after the one of
\* assigneeId; the rows come ordered by updatedAt desc.
FindTasksWithFilters(d, options) ==
    LET byAssignee == IF TruthyNumber(options.assigneeId) THEN options.assigneeId ELSE Undefined
        assignee == IF options.myTasks /\ TruthyNumber(options.userId)
                    THEN options.userId ELSE byAssignee
        rows == {t \in d.tasks :
                    /\ TruthyNumber(options.projectId) => t.project_id = options.projectId
                    /\ assignee # Undefined => t.assignee_id = assignee
                    /\ options.status # "undefined" => t.status = options.status
                    /\ options.priority # "undefined" => t.priority = options.priority}
    IN  Orderings(rows, UpdatedAtDesc(rows))

\* GET /tasks/filter: the user id is request.user?.sub, myTasks is true
\* for the string 'true', the ids are parsed; the answer is kept.
TasksFilter(users, queries) ==
    /\ \E user \in users, query \in queries :
         LET userId == TokenSub(user)
             isMyTasks == query.myTasks = "true"
             projectId == IF query.projectId # "undefined"
                          THEN ParseInt10(query.projectId) ELSE Undefined
             assigneeId == IF query.assigneeId # "undefined"
                           THEN ParseInt10(query.assigneeId) ELSE Undefined
         IN  \E items \in FindTasksWithFilters(db,
                    [projectId |-> projectId, assigneeId |-> assigneeId,
                     myTasks |-> isMyTasks, userId |-> userId,
                     status |-> query.status, priority |-> query.priority]) :
                view' = [op |-> "tasks.filter", user |-> user,
                         myTasks |-> query.myTasks, items |-> items]
    /\ UNCHANGED <<db, pre, last, recoveryVars, metrics, callVars>>

\* memberUsers.filter(m => m.id !== project.owner.id)
WithoutOwner_All(memberUsers, ownerId) == memberUsers
WithoutOwner(memberUsers, ownerId) == SelectSeq(memberUsers, LAMBDA m : m.id # ownerId)

\* TasksService.getProjectMembers: Not Found for a missing project; else
\* the owner with role "Owner", then the members that are not the owner,
\* in the order findMany (no orderBy) returns them.
GetProjectMembers(d, projectId) ==
    IF ProjectById(d, projectId) = {} THEN {[result |-> "NotFound", items |-> <<>>]}
    ELSE LET project == CHOOSE p \in ProjectById(d, projectId) : TRUE
             rows == {m \in d.members : m.project_id = projectId}
             ownerAsMember == [id |-> project.owner_id, role |-> "Owner"]
         IN  {[result |-> "ok",
               items |-> <<ownerAsMember>> \o
                         WithoutOwner([i \in 1..Len(members) |->
                                          [id |-> members[i].user_id, role |-> members[i].role]],
                                      project.owner_id)] :
                 members \in Orderings(rows, AnyOrder(rows))}

\* GET /tasks/project/:projectId/members: the answer is kept.
ProjectMembers(projects) ==
    /\ \E projectId \in projects :
         \E answer \in GetProjectMembers(db, projectId) :
            view' = [op |-> "project-members", project_id |-> projectId,
                     result |-> answer.result, items |-> answer.items]
    /\ UNCHANGED <<db, pre, last, recoveryVars, metrics, callVars>>

\* getPendingTasks as its two awaits: prisma.task.count, then
\* prisma.task.findMany on the store as it is by then.
PendingCount(users, limits) ==
    /\ view.op # "pending-tasks.count"
    /\ \E user \in users, limit \in limits :
         view' = [op |-> "pending-tasks.count", user |-> user, limit |-> limit,
                  count |-> Cardinality({t \in db.tasks : PendingWhere(db, t, user)}),
                  items |-> <<>>]
    /\ UNCHANGED <<db, pre, last, recoveryVars, metrics, callVars>>

PendingFindMany ==
    /\ view.op = "pending-tasks.count"
    /\ \E answer \in GetPendingTasks(db, view.user, EffectiveLimit(view.limit)) :
         view' = [view EXCEPT !.op = "pending-tasks", !.items = answer.items]
    /\ UNCHANGED <<db, pre, last, recoveryVars, metrics, callVars>>

CompletedTasks(users, limits) ==
    \E user \in users, limit \in limits :
        \E answer \in GetCompletedTasks(db, user,
                          IF limit = Undefined THEN CompletedDefaultLimit ELSE limit) :
            Query("completed-tasks", user, limit, answer)

TaskCollaborators(users, limits) ==
    \E user \in users, limit \in limits :
        \E answer \in GetTaskCollaboratorsCount(db, user, EffectiveLimit(limit)) :
            Query("task-collaborators", user, limit, answer)

RecentActivity(users, limits) ==
    \E user \in users, limit \in limits :
        \E answer \in GetRecentActivity(db, user, EffectiveLimit(limit)) :
            Query("recent-activity", user, limit, answer)

(***************************************************************************)
(* Requests on the store                                                   *)
(***************************************************************************)

NoRequest ==
    [op |-> "none", user |-> Null, id |-> Null, uid |-> Null, ident |-> "", role |-> "",
     project_id |-> Undefined, body |-> NoBody, result |-> "none"]

\* The sequences stay within the bounds of the model: a step creates a
\* row only below the bound of its table (or of the store it starts from).
Bounded(d) ==
    LET Cap(current, max) == IF current > max + 1 THEN current ELSE max + 1
    IN  /\ d.seq.project <= Cap(db.seq.project, MaxProjects)
        /\ d.seq.member <= Cap(db.seq.member, MaxMembers)
        /\ d.seq.task <= Cap(db.seq.task, MaxTasks)
        /\ d.seq.comment <= Cap(db.seq.comment, MaxComments)
        /\ d.seq.attachment <= Cap(db.seq.attachment, MaxAttachments)

\* The step of a request: the store becomes the handler's store, the
\* request and its response are recorded with the store it started from.
Serve(req, r) ==
    /\ Bounded(r.db)
    /\ db' = r.db
    /\ pre' = db
    /\ last' = [req EXCEPT !.result = r.result]
    /\ UNCHANGED <<recoveryVars, view, metrics, callVars>>

\* user is the authenticated caller, recorded for the handlers the
\* authorization policy covers; the other handlers are recorded without.
Request(op, user, id) == [NoRequest EXCEPT !.op = op, !.user = user, !.id = id]

\* Bodies of task requests: those that carry at most an assignee, and
\* those that carry at most a status and a completion date.
AssigneeBodies ==
    [assignee_id : {Undefined, Null} \cup UserArgs, status : {"undefined"}, completedAt : {"undefined"}]
PlainBodies == {NoBody}

ProjectsCreate(owners) ==
    \E owner_id \in owners :
        Serve([Request("projects.create", Null, Null) EXCEPT !.uid = owner_id],
              ProjectsServiceCreate(db, owner_id))

ProjectsUpdate ==
    \E user \in Users, id \in ProjectArgs, owner_id \in {Undefined} \cup UserArgs :
        Serve([Request("projects.update", user, id) EXCEPT !.uid = owner_id],
              ProjectsControllerUpdate(db, user, id, owner_id))

ProjectsRemove ==
    \E user \in Users, id \in ProjectArgs :
        Serve(Request("projects.remove", user, id), ProjectsControllerRemove(db, user, id))

MembersCreate(roles) ==
    \E project_id \in ProjectArgs, ident \in Identifiers, role \in roles :
        Serve([Request("members.create", Null, project_id) EXCEPT !.ident = ident, !.role = role],
              ProjectMembersServiceCreate(db, project_id, ident, role))

MembersUpdate(dtos) ==
    \E id \in MemberArgs, dto \in dtos :
        Serve([Request("members.update", Null, id) EXCEPT !.project_id = dto.project_id,
                                                          !.ident = dto.user_identifier,
                                                          !.role = dto.role],
              ProjectMembersServiceUpdate(db, id, dto))

MembersRemove ==
    \E id \in MemberArgs :
        Serve(Request("members.remove", Null, id), ProjectMembersServiceRemove(db, id))

MembersRemoveByProjectAndUser ==
    \E project_id \in ProjectArgs, uid \in UserArgs :
        Serve([Request("members.removeByProjectAndUser", Null, project_id) EXCEPT !.uid = uid],
              ProjectMembersServiceRemoveByProjectAndUser(db, project_id, uid))

TasksCreate(bodies) ==
    \E project_id \in ProjectArgs, body \in bodies :
        Serve([Request("tasks.create", Null, project_id) EXCEPT !.body = body],
              TasksServiceCreate(db, project_id, body))

TasksUpdate(bodies) ==
    \E user \in Users, id \in TaskArgs, body \in bodies :
        Serve([Request("tasks.update", user, id) EXCEPT !.body = body],
              TasksControllerUpdate(db, user, id, body))

\* The global ValidationPipe ({ transform, whitelist: true }) on a body of
\* PATCH /tasks/:id: the properties UpdateTaskDto does not declare are
\* stripped, the declared ones are kept.
ValidationPipeWhitelist(raw) ==
    [rejected |-> FALSE,
     dto |-> [assignee_id |-> raw.assignee_id, status |-> raw.status,
              completedAt |-> raw.completedAt]]

\* PATCH /tasks/:id with the body as the client sent it, a project_id
\* included: the pipe, then the handler.
TasksUpdateRaw(raws) ==
    \E user \in Users, id \in TaskArgs, raw \in raws :
        LET piped == ValidationPipeWhitelist(raw) IN
        Serve([Request("tasks.update", user, id) EXCEPT !.body = piped.dto,
                                                        !.project_id = raw.project_id],
              IF piped.rejected THEN Result("BadRequest", db)
              ELSE TasksControllerUpdate(db, user, id, piped.dto))

TasksRemove ==
    \E user \in Users, id \in TaskArgs :
        Serve(Request("tasks.remove", user, id), TasksControllerRemove(db, user, id))

CommentsCreate(authors) ==
    \E task_id \in TaskArgs, uid \in authors :
        Serve([Request("comments.create", Null, task_id) EXCEPT !.uid = uid],
              CommentsServiceCreate(db, task_id, uid))

AttachmentsCreate(authors) ==
    \E task_id \in TaskArgs, uid \in authors :
        Serve([Request("attachments.create", Null, task_id) EXCEPT !.uid = uid],
              CommentsServiceCreateAttachment(db, task_id, uid))

\* Everything but the store, as it is when the service starts.
Fresh ==
    /\ pre = EmptyDb
    /\ view = NoView
    /\ metrics = NoMetrics
    /\ userTable = InitialUsers
    /\ su = [p \in SignUps |-> NoSignUp]
    /\ rm = [p \in Removals |-> NoRemoval]
    /\ mc = [p \in MemberCreates |-> NoMemberCreate]
    /\ last = NoRequest
    /\ password = [u \in Users |-> InitialPassword]
    /\ codes = {}
    /\ codeSeq = 1
    /\ now = 0
    /\ fp = [p \in Forgots |-> NoForgot]
    /\ rp = [p \in Resets |-> NoReset]

Init ==
    /\ db = EmptyDb
    /\ Fresh

\* Projects, memberships and tasks with their assignees.
Next ==
    \/ ProjectsCreate(UserArgs)
    \/ ProjectsUpdate
    \/ ProjectsRemove
    \/ MembersCreate(OneRole)
    \/ MembersRemove
    \/ MembersRemoveByProjectAndUser
    \/ TasksCreate(AssigneeBodies)
    \/ TasksUpdate(AssigneeBodies)
    \/ TasksRemove

Spec == Init /\ [][Next]_vars

(***************************************************************************)
(* Authorization of mutating requests (C1)                                 *)
(***************************************************************************)

MutatingOps == {"projects.update", "projects.remove", "tasks.update", "tasks.remove"}

\* The project a mutating request is about, in the store d: the project
\* itself, or the project of the task.
TargetProject(d, req) ==
    IF req.op \in {"projects.update", "projects.remove"} THEN ProjectById(d, req.id)
    ELSE {p \in d.projects : \E t \in TaskById(d, req.id) : t.project_id = p.id}

\* The policy: the user owns the project or has a ProjectMember row in it.
OwnerOrMember(d, user, p) == p.owner_id = user \/ MemberRows(d, p.id, user) # {}

\* C1: a mutating request of user U on project P, or on a task of P, is
\* let through if and only if U owns P or is a member of P; otherwise it
\* is answered Forbidden and the store is left as it was.
C1_AuthorizedIffOwnerOrMember ==
    last.op \in MutatingOps =>
        \A p \in TargetProject(pre, last) :
            /\ (last.result # "Forbidden") <=> OwnerOrMember(pre, last.user, p)
            /\ ~OwnerOrMember(pre, last.user, p) => db = pre

(***************************************************************************)
(* Assignees (C2, C10)                                                     *)
(***************************************************************************)

\* The project a task request is about: create names it, update names a
\* task of it.
TaskRequestProject(d, req) ==
    IF req.op = "tasks.create" THEN req.id
    ELSE IF TaskById(d, req.id) = {} THEN Null
    ELSE (CHOOSE t \in TaskById(d, req.id) : TRUE).project_id

\* C2: a task create or update that carries assignee A fails with a Bad
\* Request and changes nothing unless A is the owner or a member of the
\* task's project.
C2_AssigneeMustBelongToProject ==
    (last.op \in {"tasks.create", "tasks.update"} /\ Truthy(last.body.assignee_id)) =>
        LET pid == TaskRequestProject(pre, last) IN
        (pid # Null /\ ~IsMemberOrOwner(pre, pid, last.body.assignee_id)) =>
            (last.result = "BadRequest" /\ db = pre)

\* C10: in every state the assignee of a task, when it has one, is the
\* owner of the task's project or has a ProjectMember row in it.
C10_AssigneeIsOwnerOrMember ==
    \A t \in db.tasks : t.assignee_id # Null => IsMemberOrOwner(db, t.project_id, t.assignee_id)

(***************************************************************************)
(* Memberships (C4)                                                        *)
(***************************************************************************)

\* Projects and their memberships.
NextMembers ==
    \/ ProjectsCreate({1})
    \/ ProjectsRemove
    \/ MembersCreate(RoleArgs)
    \/ MembersRemove
    \/ MembersRemoveByProjectAndUser

SpecMembers == Init /\ [][NextMembers]_vars

\* C4: a create of a ProjectMember for a (project, user) pair that has a
\* row is answered Conflict and leaves the store as it was; no pair ever
\* has two rows.
C4_DuplicateMemberIsConflict ==
    /\ last.op = "members.create" =>
          \A u \in FindUserByIdentifier(last.ident) :
              MemberRows(pre, last.id, u) # {} => (last.result = "Conflict" /\ db = pre)
    /\ \A m1, m2 \in db.members :
          (m1.project_id = m2.project_id /\ m1.user_id = m2.user_id) => m1 = m2

C4_Witness ==
    /\ last.op = "members.create"
    /\ last.result = "Conflict"
    /\ \E u \in FindUserByIdentifier(last.ident) : MemberRows(pre, last.id, u) # {}
    /\ db.seq.member <= MaxMembers

(***************************************************************************)
(* Deletion of a project (C5)                                              *)
(***************************************************************************)

\* Projects with members, tasks, comments and attachments.
NextCascade ==
    \/ ProjectsCreate({1})
    \/ ProjectsRemove
    \/ MembersCreate(OneRole)
    \/ TasksCreate(PlainBodies)
    \/ TasksRemove
    \/ CommentsCreate(UserArgs)
    \/ AttachmentsCreate(UserArgs)

SpecCascade == Init /\ [][NextCascade]_vars

\* No row references a missing project or task.
NoOrphans(d) ==
    /\ \A m \in d.members : ProjectById(d, m.project_id) # {}
    /\ \A t \in d.tasks : ProjectById(d, t.project_id) # {}
    /\ \A c \in d.comments : TaskById(d, c.task_id) # {}
    /\ \A a \in d.attachments : TaskById(d, a.task_id) # {}

\* C5: the removal of an existing project removes the project, its
\* members and its tasks, whatever comments or attachments its tasks
\* have, and leaves no row that references a missing project or task.
C5_ProjectRemoveCascades ==
    (last.op = "projects.remove" /\ ProjectById(pre, last.id) # {}) =>
        /\ ProjectById(db, last.id) = {}
        /\ CascadeMembers(db, last.id) = {}
        /\ CascadeTasks(db, last.id) = {}
        /\ NoOrphans(db)

(***************************************************************************)
(* Password recovery (C3, C6)                                              *)
(***************************************************************************)

\* One forgotPassword call for a registered address, and the resetPassword
\* calls that present codes for it.
NextRecovery ==
    \/ ForgotFindUser(1, {"Ana@X.io"})
    \/ ForgotDeleteMany(1)
    \/ ForgotCreate(1)
    \/ ForgotSend(1)
    \/ \E p \in Resets : ResetFindUser(p, ResetEmails, {"secret1"})
    \/ \E p \in Resets : ResetFindFirst(p)
    \/ \E p \in Resets : ResetUserUpdate(p)
    \/ \E p \in Resets : ResetCodeUpdate(p)
    \/ Tick

SpecRecovery == Init /\ [][NextRecovery]_vars

Succeeded(call) == call.pc = "done" /\ call.response = Response("none", ResetMessage)

\* C3: over two resetPassword attempts that present the same verification
\* code, run one after the other or interleaved, at most one succeeds: no
\* two calls that completed successfully found the same code row.
C3_CodeEnablesAtMostOneReset ==
    \A p, q \in Resets :
        (p # q /\ Succeeded(rp[p]) /\ Succeeded(rp[q])) => rp[p].vc # rp[q].vc

\* The forgotPassword calls, for registered and unregistered addresses.
NextForgot ==
    \/ \E p \in Forgots : ForgotFindUser(p, ForgotEmails)
    \/ \E p \in Forgots : ForgotDeleteMany(p)
    \/ \E p \in Forgots : ForgotCreate(p)
    \/ \E p \in Forgots : ForgotSend(p)
    \/ Tick

SpecForgot == Init /\ [][NextForgot]_vars

DashProjects == {[id |-> 1, owner_id |-> 1], [id |-> 2, owner_id |-> 2]}
DashMembers == {[id |-> 1, project_id |-> 2, user_id |-> 3, role |-> "Member"]}

\* The next value of an autoincrement sequence whose last row is present.
NextId(rows) ==
    IF rows = {} THEN 1
    ELSE 1 + CHOOSE m \in {r.id : r \in rows} : \A r \in rows : r.id <= m

DashStore(members, tasks, comments, attachments) ==
    [projects |-> DashProjects, members |-> members, tasks |-> tasks,
     comments |-> comments, attachments |-> attachments,
     seq |-> [project |-> NextId(DashProjects), member |-> NextId(members),
              task |-> NextId(tasks), comment |-> NextId(comments),
              attachment |-> NextId(attachments)]]

DashTask(id, shape) ==
    [id |-> id, project_id |-> shape.project_id, assignee_id |-> shape.assignee_id,
     status |-> shape.status, priority |-> shape.priority, dueDate |-> NoDate,
     completedAt |-> IF shape.status = "Done" THEN Today ELSE NoDate,
     updatedAt |-> shape.updatedAt]

\* The stores with at most MaxDashTasks tasks of the given shapes.
TaskTables(shapes) ==
    UNION {{{DashTask(i, f[i]) : i \in 1..n} : f \in [1..n -> shapes]} : n \in 0..MaxDashTasks}

PendingShapes ==
    [project_id : {1, 2}, assignee_id : {Null, 1}, status : StatusArgs,
     priority : {"Low", "High"}, updatedAt : {0}]

InitPending ==
    /\ db \in {DashStore(DashMembers, tasks, {}, {}) : tasks \in TaskTables(PendingShapes)}
    /\ Fresh

NextPending == PendingTasks(Users, Limits)

SpecPending == InitPending /\ [][NextPending]_vars

IsPendingView == view.op = "pending-tasks"
ViewIds == {view.items[i].id : i \in 1..Len(view.items)}
VisiblePending(d, userId) == {t \in d.tasks : t.status # "Done" /\ VisibleTask(d, t, userId)}

ActivityShapes ==
    [project_id : {1, 2}, assignee_id : {Null}, status : {"Todo"},
     priority : {"Medium"}, updatedAt : Stamps]

\* Comments by user 2 and attachments by user 3 on the task given, one
\* for each stamp of a set, created in the order of their stamps.
RowsOn(task_id, user_id, stamps) ==
    {[id |-> k, task_id |-> task_id, user_id |-> user_id, createdAt |-> k] : k \in stamps}

\* Stores whose first task carries comments and whose last task carries
\* attachments.
InitActivity ==
    /\ db \in {DashStore(DashMembers, tasks,
                          IF tasks = {} THEN {} ELSE RowsOn(1, 2, commented),
                          IF tasks = {} THEN {} ELSE RowsOn(Cardinality(tasks), 3, attached)) :
                    tasks \in TaskTables(ActivityShapes),
                    commented \in SUBSET Stamps, attached \in SUBSET Stamps}
    /\ Fresh

NextActivity == RecentActivity(Users, Limits)

SpecActivity == InitActivity /\ [][NextActivity]_vars

IsActivityView == view.op = "recent-activity"

\* The row an activity entry reports.
ActivitySource(d, entry) ==
    IF entry.type = "comment_added" THEN {c \in d.comments : c.id = entry.id}
    ELSE IF entry.type = "attachment_added" THEN {a \in d.attachments : a.id = entry.id}
    ELSE {[task_id |-> t.id] : t \in TaskById(d, entry.id)}

CollaboratorShapes ==
    [project_id : {1, 2}, assignee_id : {Null}, status : {"Todo"},
     priority : {"Medium"}, updatedAt : {1}]

\* Users 1 and 2 may be members of the first project; the first task may
\* carry a comment by user 2 and two comments by user 3.
MemberTables ==
    {DashMembers \cup extra :
        extra \in SUBSET {[id |-> 2, project_id |-> 1, user_id |-> 1, role |-> "Leader"],
                          [id |-> 3, project_id |-> 1, user_id |-> 2, role |-> "Member"]}}
CommentTables ==
    SUBSET {[id |-> 1, task_id |-> 1, user_id |-> 2, createdAt |-> 1],
            [id |-> 2, task_id |-> 1, user_id |-> 3, createdAt |-> 1],
            [id |-> 3, task_id |-> 1, user_id |-> 3, createdAt |-> 2]}

InitCollaborators ==
    /\ db \in {DashStore(members, tasks, IF tasks = {} THEN {} ELSE comments, {}) :
                    members \in MemberTables, tasks \in TaskTables(CollaboratorShapes),
                    comments \in CommentTables}
    /\ Fresh

NextCollaborators == TaskCollaborators(Users, Limits)

SpecCollaborators == InitCollaborators /\ [][NextCollaborators]_vars

IsCollaboratorsView == view.op = "task-collaborators"

MemberIds(d, project_id) == {m.user_id : m \in {r \in d.members : r.project_id = project_id}}
CommentAuthors(d, task_id) == {c.user_id : c \in {r \in d.comments : r.task_id = task_id}}

\* C9: for every task getTaskCollaboratorsCount returns, collaboratorCount
\* is the number of users that are members of the task's project or
\* authors of a comment on the task, each counted once.
C9_CollaboratorCountIsUnion ==
    IsCollaboratorsView =>
        \A i \in 1..Len(view.items) :
            view.items[i].collaboratorCount =
                Cardinality(MemberIds(db, view.items[i].project_id)
                            \cup CommentAuthors(db, view.items[i].id))

\* A task whose project has members {1, 2} and whose comments are by
\* {2, 3} is returned with 3 collaborators.
C9_Witness ==
    /\ IsCollaboratorsView
    /\ \E i \in 1..Len(view.items) :
          /\ MemberIds(db, view.items[i].project_id) = {1, 2}
          /\ CommentAuthors(db, view.items[i].id) = {2, 3}
          /\ view.items[i].collaboratorCount = 3

(***************************************************************************)
(* Password recovery: a later request supersedes the code (C11)            *)
(***************************************************************************)

\* The forgotPassword calls of one user, and a resetPassword call of hers.
NextSupersede ==
    \/ \E p \in Forgots : ForgotFindUser(p, {"Ana@X.io"})
    \/ \E p \in Forgots : ForgotDeleteMany(p)
    \/ \E p \in Forgots : ForgotCreate(p)
    \/ \E p \in Forgots : ForgotSend(p)
    \/ ResetFindUser(1, {"ana@x.io"}, {"secret1"})
    \/ ResetFindFirst(1)
    \/ ResetUserUpdate(1)
    \/ ResetCodeUpdate(1)

SpecSupersede == Init /\ [][NextSupersede]_vars

\* The forgotPassword call p has completed and arrived after the code row
\* id of the user was issued.
Supersedes(p, id, user) ==
    fp[p].pc = "done" /\ fp[p].user = user /\ fp[p].seq > id

UsableCodes(call) ==
    {c \in codes : /\ c.code = call.code /\ c.userId = call.user
                   /\ ~c.isUsed /\ ~(c.expiresAt < now)}

\* C12: a resetPassword call (with password and confirmation equal) for
\* an email that has no user fails with Not-Found, and only such a call
\* does; a call for a user whose code is unknown, already used, issued to
\* another user or expired when it is looked up fails with Unauthorized,
\* and only such a call does.
C12_UnauthorizedAndNotFoundApart ==
    [][\A q \in Resets :
          /\ (rp[q].pc = "idle" /\ rp'[q].pc # "idle") =>
                /\ rp'[q].response.error = "NotFound"
                      => FindByEmail(Normalize(rp'[q].email)) = Null
                /\ FindByEmail(Normalize(rp'[q].email)) = Null
                      => rp'[q].response.error \in {"NotFound", "BadRequest"}
                /\ rp'[q].response.error # "Unauthorized"
          /\ (rp[q].pc = "findFirst" /\ rp'[q].pc # "findFirst") =>
                /\ rp[q].user # Null
                /\ IF UsableCodes(rp[q]) = {}
                   THEN rp'[q].pc = "done" /\ rp'[q].response.error = "Unauthorized"
                   ELSE rp'[q].pc = "userUpdate"
          /\ (rp[q].pc \notin {"idle", "findFirst"} /\ rp'[q] # rp[q]) =>
                rp'[q].response.error \notin {"NotFound", "Unauthorized"}]_vars

\* A call for an unregistered email got Not-Found, and a call that
\* presented an expired code of its user got Unauthorized.
C12_Witness ==
    /\ rp[1].pc = "done" /\ rp[1].response.error = "NotFound"
    /\ rp[2].pc = "done" /\ rp[2].response.error = "Unauthorized"
    /\ \E c \in codes : /\ c.code = rp[2].code /\ c.userId = rp[2].user
                         /\ ~c.isUsed /\ c.expiresAt < now

(***************************************************************************)
(* Password recovery: what a successful reset writes (C13)                 *)
(***************************************************************************)

\* C13: a successful resetPassword changes exactly the password hash of
\* the user of the email and the used flag, from false to true, of the
\* code it matched: its user.update writes that password and nothing
\* else, its verificationCode.update turns the flag of that row from
\* false to true and writes nothing else, and its other steps write
\* nothing.
C13_ResetWritesPasswordAndFlag ==
    [][\A q \in Resets :
          rp'[q] # rp[q] =>
            IF rp[q].pc = "userUpdate"
            THEN /\ password' = [password EXCEPT ![rp[q].user] = Encrypt(rp[q].password)]
                 /\ codes' = codes
            ELSE IF Succeeded(rp'[q])
            THEN /\ password' = password
                 /\ \E c \in codes :
                       /\ c.id = rp[q].vc /\ c.userId = rp[q].user
                       /\ ~c.isUsed
                       /\ codes' = (codes \ {c}) \cup {[c EXCEPT !.isUsed = TRUE]}
            ELSE password' = password /\ codes' = codes]_vars

(***************************************************************************)
(* Dashboard: all the metrics or none (C14)                                *)
(***************************************************************************)

NextMetrics == MetricsStart \/ SectionSettles \/ MetricsSettle

SpecMetrics == Init /\ [][NextMetrics]_vars

\* C14: getDashboardMetrics returns a metrics object only after all six
\* section computations have completed successfully, and the object then
\* holds the six sections; when a section has failed the request fails
\* with an internal error, and no object with only some of the sections
\* is ever returned.
C14_AllSectionsOrError ==
    /\ metrics.response = "ok" =>
          /\ \A i \in SectionIds : metrics.promises[i] = "fulfilled"
          /\ metrics.body = {Sections[i] : i \in SectionIds}
          /\ Cardinality(metrics.body) = 6
    /\ metrics.response # "ok" => metrics.body = {}
    /\ (\E i \in SectionIds : metrics.promises[i] = "rejected")
          => metrics.response \in {"pending", "InternalServerError"}

\* The request has failed with one section failed, others completed and
\* one still running.
C14_Witness ==
    /\ metrics.response = "InternalServerError"
    /\ \E i, j, k \in SectionIds :
          /\ metrics.promises[i] = "rejected"
          /\ metrics.promises[j] = "fulfilled"
          /\ metrics.promises[k] = "pending"

(***************************************************************************)
(* Creation of users (C15)                                                 *)
(***************************************************************************)

NextAccounts ==
    \/ \E p \in SignUps : UsersServiceCreate(p)
    \/ \E p \in SignUps : SignUpFindEmail(p)
    \/ \E p \in SignUps : SignUpCreate(p)

SpecAccounts == Init /\ [][NextAccounts]_vars

\* C15: creating a user whose email is already registered, through
\* UsersService.create or through signUp, also when two sign-ups for the
\* same email run concurrently, fails with a Conflict error, and no two
\* user rows ever hold the same email.
C15_DuplicateEmailIsConflict ==
    /\ \A u, v \in userTable : u.email = v.email => u = v
    /\ \A p \in SignUps :
          su[p].pc = "done" =>
              IF \E u \in userTable : u.email = su[p].email /\ u.id # su[p].row
              THEN su[p].response = "Conflict"
              ELSE su[p].response = "ok"

(***************************************************************************)
(* Operations on an id that names no row (C16)                             *)
(***************************************************************************)

ByIdOps == {"projects.update", "projects.remove", "members.remove", "tasks.update", "tasks.remove"}

\* The row a request names by its id, in the store d.
TargetRow(d, req) ==
    IF req.op \in {"projects.update", "projects.remove"} THEN ProjectById(d, req.id)
    ELSE IF req.op = "members.remove" THEN MemberById(d, req.id)
    ELSE TaskById(d, req.id)

\* C16: an operation that targets an entity by id (here update and remove
\* of projects and tasks, remove of project members; requests with a
\* non-empty body) fails with Not Found when no entity has the id, and
\* leaves the store as it was.
C16_MissingIdIsNotFound ==
    (/\ last.op \in ByIdOps
     /\ last.op = "tasks.update" => last.body # NoBody
     /\ TargetRow(pre, last) = {})
    => (last.result = "NotFound" /\ db = pre)

(***************************************************************************)
(* The permission check of the task-deletion endpoint (C17)                *)
(***************************************************************************)

NextTaskRemoval ==
    \/ ProjectsCreate(Users)
    \/ TasksCreate(PlainBodies)
    \/ CommentsCreate(UserArgs)
    \/ TasksRemove

SpecTaskRemoval == Init /\ [][NextTaskRemoval]_vars

\* C17: the task-deletion endpoint never answers Forbidden: for every
\* user and every existing task the permission check passes and the
\* deletion proceeds, whether or not the user owns the project.
C17_TaskRemoveNeverForbidden ==
    last.op = "tasks.remove" =>
        /\ last.result # "Forbidden"
        /\ TaskById(pre, last.id) # {} =>
              (last.result = "ok" /\ TaskById(db, last.id) = {})

\* A user that does not own the project of a task has deleted the task.
C17_Witness ==
    /\ last.op = "tasks.remove"
    /\ last.result = "ok"
    /\ \E t \in TaskById(pre, last.id) :
          \E p \in ProjectById(pre, t.project_id) : p.owner_id # last.user

(***************************************************************************)
(* The steps of TasksService.remove (C18)                                  *)
(***************************************************************************)

\* The store holds one project, owned by user 1, and nothing else.
InitRemoval ==
    /\ db = [EmptyDb EXCEPT !.projects = {[id |-> 1, owner_id |-> 1]}, !.seq.project = 2]
    /\ Fresh

NextRemoval ==
    \/ TasksCreate(PlainBodies)
    \/ CommentsCreate({1})
    \/ AttachmentsCreate({1})
    \/ \E p \in Removals : RemoveFindOne(p)
    \/ \E p \in Removals : RemoveComments(p)
    \/ \E p \in Removals : RemoveAttachments(p)
    \/ \E p \in Removals : RemoveTask(p)
    \/ \E p \in Removals : RemovalFails(p)

SpecRemoval == InitRemoval /\ [][NextRemoval]_vars

\* C18: TasksService.remove deletes the comments, then the attachments,
\* then the task, each in a step of its own.  In every state, during and
\* after a removal, also when a step fails or a comment or attachment is
\* created in between, no comment or attachment references a task that
\* does not exist; after a successful removal no comment or attachment of
\* the task remains.
C18_RemoveLeavesNoOrphan ==
    /\ \A c \in db.comments : TaskById(db, c.task_id) # {}
    /\ \A a \in db.attachments : TaskById(db, a.task_id) # {}
    /\ \A p \in Removals :
          rm[p].response = "ok" =>
              /\ TaskById(db, rm[p].id) = {}
              /\ \A c \in db.comments : c.task_id # rm[p].id
              /\ \A a \in db.attachments : a.task_id # rm[p].id

\* A removal has succeeded on a task that had a comment and an
\* attachment, and another removal of the same task was refused because a
\* row created in between referenced the task.
C18_Witness ==
    /\ rm[1].response = "ok"
    /\ rm[2].response = "BadRequest"
    /\ rm[1].id = rm[2].id
    /\ db.seq.comment > 1
    /\ db.seq.attachment > 1

(***************************************************************************)
(* Dashboard: the limited queries of recent activity (C19)                 *)
(***************************************************************************)

\* The number of entries of a list with the type and timestamp given.
Occurrences(s, type, timestamp) ==
    Cardinality({i \in 1..Len(s) : s[i].type = type /\ s[i].timestamp = timestamp})

\* Two lists hold the same (type, timestamp) entries, each as often.
SameEntries(s, t) ==
    /\ Len(s) = Len(t)
    /\ \A i \in 1..Len(s) :
          Occurrences(s, s[i].type, s[i].timestamp) = Occurrences(t, s[i].type, s[i].timestamp)

\* The complete merged timelines of a user: the three queries without a
\* limit, merged and sorted.
Timelines(d, userId) ==
    {full.items : full \in GetRecentActivity(d, userId,
                     Cardinality(d.tasks) + Cardinality(d.comments) + Cardinality(d.attachments))}

MaxDoneTasks == 3

\* Tasks of either project, not done, or done with a completion date or
\* (created with status "Done") with none.
CompletedShapes ==
    {shape \in [project_id : {1, 2}, assignee_id : {Null}, status : {"Todo", "Done"},
                 priority : {"Medium"}, updatedAt : {0},
                 completedAt : CompletedDates \cup {NoDate}] :
        shape.status = "Todo" => shape.completedAt = NoDate}

CompletedTables ==
    UNION {{{[DashTask(i, f[i]) EXCEPT !.completedAt = f[i].completedAt] : i \in 1..n} :
               f \in [1..n -> CompletedShapes]} : n \in 0..MaxDoneTasks}

InitCompleted ==
    /\ db \in {DashStore(DashMembers, tasks, {}, {}) : tasks \in CompletedTables}
    /\ Fresh

NextCompleted == CompletedTasks(Users, Limits)

SpecCompleted == InitCompleted /\ [][NextCompleted]_vars

IsCompletedView == view.op = "completed-tasks"

VisibleDone(d, userId) == {t \in d.tasks : t.status = "Done" /\ VisibleTask(d, t, userId)}

RawBodies ==
    [project_id : {Undefined} \cup ProjectArgs, assignee_id : {Undefined},
     status : {"undefined", "Done"}, completedAt : {"undefined"}]

\* The store holds two projects, owned by users 1 and 2, and no task.
InitTaskProject ==
    /\ db = DashStore(DashMembers, {}, {}, {})
    /\ Fresh

NextTaskProject ==
    \/ TasksCreate(PlainBodies)
    \/ TasksUpdateRaw(RawBodies)
    \/ TasksRemove

SpecTaskProject == InitTaskProject /\ [][NextTaskProject]_vars

\* C21: the project of a task never changes: no request leaves a task
\* with another project_id than it had, and an update request that
\* carries a project_id (for a task that exists) is rejected as a Bad
\* Request and writes nothing.
C21_ProjectOfTaskIsFixed ==
    /\ \A t \in pre.tasks, u \in db.tasks : t.id = u.id => t.project_id = u.project_id
    /\ (last.op = "tasks.update" /\ last.project_id # Undefined /\ TaskById(pre, last.id) # {})
          => (last.result = "BadRequest" /\ db = pre)

(***************************************************************************)
(* Unused codes of a user (C22)                                            *)
(***************************************************************************)

\* C22: in every state each user has at most one unused verification
\* code, also when two forgotPassword requests for the user interleave
\* their deleteMany and create steps.
C22_OneUnusedCodePerUser ==
    \A u \in Users : Cardinality(UnusedCodes(u)) <= 1

(***************************************************************************)
(* resetPassword calls that end in an error (C23)                          *)
(***************************************************************************)

\* C23: a resetPassword call that ends in an error has left the stored
\* passwords unchanged and no code used.  Stated for a call that is the
\* only resetPassword call so far, so that every write to a password or
\* to a used flag is its own.
C23_FailedResetWritesNothing ==
    \A q \in Resets :
        (/\ rp[q].pc = "done"
         /\ ~Succeeded(rp[q])
         /\ \A r \in Resets \ {q} : rp[r].pc = "idle")
        => (/\ password = [u \in Users |-> InitialPassword]
            /\ \A c \in codes : ~c.isUsed)

(***************************************************************************)
(* The code a returned forgotPassword leaves (C24)                         *)
(***************************************************************************)

\* C24: when forgotPassword returns for the email of an existing user,
\* the user holds an unused, unexpired verification code carrying the
\* string the call generated, whatever that string is, also when it
\* equals a code that is already stored.
C24_ReturnedForgotLeavesCode ==
    [][\A p \in Forgots :
          (fp[p].pc # "done" /\ fp'[p].pc = "done" /\ fp'[p].user # Null)
          => \E c \in codes' :
                /\ c.userId = fp'[p].user
                /\ c.code = fp'[p].code
                /\ ~c.isUsed
                /\ c.expiresAt >= now']_vars

(***************************************************************************)
(* Concurrent creation of a membership (C25)                               *)
(***************************************************************************)

NextMemberRace ==
    \/ \E p \in MemberCreates : MemberCreateFindFirst(p, RoleArgs)
    \/ \E p \in MemberCreates : MemberCreateInsert(p)

SpecMemberRace == InitRemoval /\ [][NextMemberRace]_vars

\* Two calls for one (project, user) pair that have both passed the
\* lookup of an existing row and have both returned.
BothPassed(p, q) ==
    /\ p # q
    /\ mc[p].pc = "done" /\ mc[q].pc = "done"
    /\ mc[p].checked /\ mc[q].checked
    /\ mc[p].project_id = mc[q].project_id
    /\ mc[p].user_id = mc[q].user_id

\* C25: when two create requests for the same (project, user) pair both
\* pass the existence check before either inserts, exactly one row is
\* created and the other request ends with a Conflict.
C25_ConcurrentMemberCreate ==
    \A p, q \in MemberCreates :
        BothPassed(p, q) =>
            /\ {mc[p].response, mc[q].response} = {"ok", "Conflict"}
            /\ Cardinality(MemberRows(db, mc[p].project_id, mc[p].user_id)) = 1

C25_Witness == BothPassed(1, 2) /\ mc[1].response = "Conflict"

(***************************************************************************)
(* Completion date of done tasks (C26)                                     *)
(***************************************************************************)

\* Bodies of task requests that carry at most a status and a completion
\* date.
StatusBodies ==
    [assignee_id : {Undefined}, status : {"undefined"} \cup StatusArgs,
     completedAt : {"undefined", Today}]

NextDone ==
    \/ TasksCreate(StatusBodies)
    \/ TasksUpdate(StatusBodies)
    \/ TasksRemove

SpecDone == InitRemoval /\ [][NextDone]_vars

\* C26: in every state, every task whose status is "Done" has a
\* completion date, whichever operation made it Done, the creation of a
\* task with status "Done" included.
C26_DoneHasCompletedAt ==
    \A t \in db.tasks : t.status = "Done" => t.completedAt # NoDate

(***************************************************************************)
(* Update of a membership (C27)                                            *)
(***************************************************************************)

\* Bodies of PATCH /project-members/:id that pass the validation of
\* UpdateProjectMemberDto.
MemberDtos ==
    [project_id : {Undefined} \cup ProjectArgs, user_identifier : {"undefined", Username[2]},
     role : {"undefined"} \cup RoleArgs]

NextMemberUpdate ==
    \/ MembersCreate(OneRole)
    \/ MembersUpdate(MemberDtos)
    \/ MembersRemove

SpecMemberUpdate == InitTaskProject /\ [][NextMemberUpdate]_vars

\* C27: update changes only the role of a membership row: across every
\* request the rows that stay keep their project_id and user_id, so a
\* request that names another project or user does not move the row.
C27_MemberUpdateKeepsPair ==
    \A m \in pre.members, n \in db.members :
        m.id = n.id => (m.project_id = n.project_id /\ m.user_id = n.user_id)

(***************************************************************************)
(* Dashboard: count and page under concurrent writes (C28)                 *)
(***************************************************************************)

NextPage ==
    \/ TasksCreate(PlainBodies)
    \/ TasksRemove
    \/ PendingCount(Users, Limits)
    \/ PendingFindMany

SpecPage == InitRemoval /\ [][NextPage]_vars

\* C28: the page of a dashboard section (here pending tasks) never has
\* more entries than the count the section reports nor more than the
\* limit, also when tasks are created or deleted between the count query
\* and the list query.
C28_PageWithinCountAndLimit ==
    view.op = "pending-tasks" =>
        /\ Len(view.items) <= view.count
        /\ Len(view.items) <= EffectiveLimit(view.limit)

(***************************************************************************)
(* The members of a project as tasks list them (C29)                       *)
(***************************************************************************)

\* Membership rows over the two projects: the owner of each project may
\* hold a row in it.
RosterRows ==
    {[id |-> 1, project_id |-> 1, user_id |-> 1, role |-> "Leader"],
     [id |-> 2, project_id |-> 1, user_id |-> 2, role |-> "Member"],
     [id |-> 3, project_id |-> 1, user_id |-> 3, role |-> "Observer"],
     [id |-> 4, project_id |-> 2, user_id |-> 2, role |-> "ProjectManager"],
     [id |-> 5, project_id |-> 2, user_id |-> 3, role |-> "Member"]}

InitRoster ==
    /\ db \in {DashStore(members, {}, {}, {}) : members \in SUBSET RosterRows}
    /\ Fresh

NextRoster == ProjectMembers(1..3)

SpecRoster == InitRoster /\ [][NextRoster]_vars

IsRosterView == view.op = "project-members" /\ view.result = "ok"

\* C29: getProjectMembers returns each user at most once: the owner of
\* the project first and once, with role "Owner", also when the owner has
\* a membership row in the project, followed by every other member with
\* the role of the membership.
C29_OwnerOnceThenMembers ==
    IsRosterView =>
        LET owner == (CHOOSE p \in ProjectById(db, view.project_id) : TRUE).owner_id IN
        /\ view.items[1] = [id |-> owner, role |-> "Owner"]
        /\ \A i, j \in 1..Len(view.items) : i # j => view.items[i].id # view.items[j].id
        /\ {view.items[i] : i \in 2..Len(view.items)}
             = {[id |-> m.user_id, role |-> m.role] :
                  m \in {r \in db.members : r.project_id = view.project_id /\ r.user_id # owner}}

\* The list of a project whose owner has a membership row and which has
\* two other members.
C29_Witness ==
    /\ IsRosterView
    /\ Len(view.items) = 3
    /\ \E m \in db.members :
          m.project_id = view.project_id /\ m.user_id = view.items[1].id

(***************************************************************************)
(* The task filter with myTasks (C30)                                      *)
(***************************************************************************)

FilterShapes ==
    [project_id : {1, 2}, assignee_id : {Null, 1, 2}, status : StatusArgs,
     priority : {"Low"}, updatedAt : {0}]

\* The query strings of a filter request; "undefined" is an absent
\* parameter.
FilterQueries ==
    [projectId : {"undefined", "1"}, assigneeId : {"undefined", "2"},
     myTasks : {"undefined", "true", "false"}, status : {"undefined", "Todo"},
     priority : {"undefined"}]

InitFilter ==
    /\ db \in {DashStore(DashMembers, tasks, {}, {}) : tasks \in TaskTables(FilterShapes)}
    /\ Fresh

NextFilter == TasksFilter({1, 2}, FilterQueries)

SpecFilter == InitFilter /\ [][NextFilter]_vars

\* C30: a task-filter request with myTasks=true returns only tasks
\* assigned to the requesting user, whatever the other filters are (the
\* requester's id overrides an assigneeId filter): no task of another
\* assignee and no unassigned task is returned.
C30_MyTasksOnlyOwn ==
    (view.op = "tasks.filter" /\ view.myTasks = "true") =>
        \A i \in 1..Len(view.items) : view.items[i].assignee_id = view.user

====
